---- MODULE Spec2Model ----
(***************************************************************************)
(* Interview-scheduling backend (server.js): the five HTTP endpoints over  *)
(* the PostgreSQL schema created by runMigrations, with the fire-and-      *)
(* forget notification e-mail.                                             *)
(*                                                                         *)
(* A handler is a JavaScript async function: the code between two awaits   *)
(* runs without interleaving, so every action below is "one awaited        *)
(* promise settles, and the handler runs up to its next await".            *)
(* The database is PostgreSQL at READ COMMITTED: the writes of an open     *)
(* transaction are private to it until COMMIT, an UPDATE locks the rows it *)
(* changes until the transaction ends, an INSERT of a key that another     *)
(* open transaction has inserted into a UNIQUE index waits for that        *)
(* transaction, and sequences (SERIAL) are never rolled back.              *)
(***************************************************************************)
EXTENDS Integers, Sequences, FiniteSets, TLC

\* ------------------------------------------------------------- bounds
\* Number of HTTP calls received in one run.
MaxCalls == 2
\* Number of infrastructure failures (lost connection, pool error,
\* headers already sent is NOT one of them) injected in one run.
MaxFaults == 1
\* Number of process starts (each runs the bootstrap once) in one run.
MaxCorridas == 2
\* Number of HTTP calls received while the process starts.
LlamadasArranque == 1

\* ------------------------------------------------------------- values
NULL == "NULL"
Correos == {"ana@x.com", "luis@x.com"}
Fechas == {"2024-06-01", "2024-06-02", "2024-06-03"}
Horas == {"10:00", "11:00", "12:00"}
\* A date the database cannot parse.
FechaMala == "manana"
\* Request bodies are not validated by the server: a field may be missing
\* (undefined is sent to the database as NULL) or malformed.
FechasIn == Fechas \cup {NULL, FechaMala}
\* The (fecha_cita, hora_cita) bodies the calls carry: two that differ in both
\* fields (and from the stored appointment), one without a date, one with a
\* malformed date.
CitasIn == {<<"2024-06-02", "11:00">>, <<"2024-06-03", "12:00">>,
            <<NULL, "11:00">>, <<FechaMala, "11:00">>}
Calls == 1..MaxCalls
\* Ids a caller may put in the path: the stored request's, and those a create
\* of the run may be given (they match no row until it commits).
Ids == 1..MaxCalls
\* The :id of the path is text: the decimal ids, and one that is no integer.
IdsPath == {ToString(i) : i \in Ids} \cup {"abc"}

\* CHECK (estado IN (...)) of table solicitud
Estados == {"pendiente", "confirmada", "rechazada", "cancelada"}

VARIABLES
    aspirante,        \* committed rows of table aspirante
    solicitud,        \* committed rows of table solicitud
    cita,             \* committed rows of table cita
    reclutador,       \* committed rows of table reclutador
    seq,              \* the three SERIAL sequences: last value handed out
    reloj,            \* database clock, read by NOW(): ticks when a create begins
    emailServiceType, \* 'none' | 'resend' | 'smtp'
    env,              \* process.env: which credentials are present
    verif,            \* emailService.verify callback: "no" | "pendiente" | "ok" | "fallo"
    tablas,           \* the tables that exist in the database
    mig,              \* runMigrations of the current process start
    nCalls,           \* calls received so far
    faults,           \* infrastructure failures injected so far
    req,              \* req[h]: the call's route, params and body
    pc,               \* pc[h]: the await the handler is suspended at
    tx,               \* tx[h]: the handler's open transaction
    loc,              \* loc[h]: the handler's local constants
    client,           \* client[h]: "none" | "held" | "released"
    res,              \* res[h]: the response sent on the wire
    resErr,           \* resErr[h]: a send was attempted after one was sent
    rejected,         \* rejected[h]: the handler's promise rejected
    traza,            \* traza[h]: the handler's events, in order
    envio             \* envio[h]: state of the e-mail send of the call

vars == <<aspirante, solicitud, cita, reclutador, seq, reloj, emailServiceType,
          env, verif, tablas, mig, nCalls, faults, req, pc, tx, loc, client, res, resErr, rejected, traza, envio>>

db == <<aspirante, solicitud, cita, reclutador>>
arranque == <<emailServiceType, env, verif, tablas, mig>>
http == <<res, resErr, rejected>>
llamadas == <<nCalls, req, pc, tx, loc, client, res, resErr, rejected, traza, envio>>

\* ------------------------------------------------------------- schema
\* A transaction: whether it is open, its start time, whether it committed,
\* the rows it inserted (asp, sol, cit) and the new versions of the rows it
\* updated (updS, updC). vio records that a transaction of a call of the same
\* request (or the same e-mail) committed while this one was open.
NoTx == [abierta |-> FALSE, inicio |-> 0, hecha |-> FALSE, vio |-> FALSE,
         asp |-> {}, sol |-> {}, cit |-> {}, updS |-> {}, updC |-> {}]
NoReq == [tipo |-> "none", id |-> NULL, correo |-> NULL, fecha |-> NULL, hora |-> NULL]
NoRes == [status |-> 0, body |-> "none", id_solicitud |-> 0, rows |-> <<>>]
\* The handler's constants: the ids RETURNING gave it, the rows of its SELECT.
\* existia records that the request of the path was stored when the call came.
NoLoc == [id_aspirante |-> 0, id_solicitud |-> 0, aspirante |-> {}, existia |-> FALSE]

\* The seed row runMigrations inserts.
ReclutadorSeed == [id_reclutador |-> 1, correo |-> "reclutador@empresa.com"]

\* INSERT INTO aspirante ... RETURNING id_aspirante
AspiranteRow(id, correo) == [id_aspirante |-> id, correo |-> correo]

\* INSERT INTO solicitud (fecha_solicitud, estado, id_aspirante) VALUES (NOW(), 'pendiente', $2)
SolicitudRowConfirmada(id, now, idAsp) ==
    [id_solicitud |-> id, fecha_solicitud |-> now, estado |-> "confirmada", id_aspirante |-> idAsp]
SolicitudRowCancelada(id, now, idAsp) ==
    [id_solicitud |-> id, fecha_solicitud |-> now, estado |-> "cancelada", id_aspirante |-> idAsp]
SolicitudRow(id, now, idAsp) ==
    [id_solicitud |-> id, fecha_solicitud |-> now, estado |-> "pendiente", id_aspirante |-> idAsp]

\* INSERT INTO cita (fecha_cita, hora_cita, id_solicitud): id_reclutador defaults to NULL
CitaRow(id, fecha, hora, idSol) ==
    [id_cita |-> id, fecha_cita |-> fecha, hora_cita |-> hora,
     id_solicitud |-> idSol, id_reclutador |-> NULL]

\* ------------------------------------------------------------- process start
\* The four tables runMigrations creates.
Tablas == {"aspirante", "reclutador", "solicitud", "cita"}

\* RESEND_API_KEY, EMAIL_USER, EMAIL_PASS: present or not.
Entornos == [resendKey : BOOLEAN, emailUser : BOOLEAN, emailPass : BOOLEAN]

\* The provider the module selects while it loads: Resend when its key is
\* present (the constructor does not throw on a key), else SMTP when user and
\* password are present, else none.
ElegirSmtpPrimero(e) ==
    IF e.emailUser /\ e.emailPass THEN "smtp"
    ELSE IF e.resendKey THEN "resend" ELSE "none"
Elegir(e) ==
    IF e.resendKey THEN "resend"
    ELSE IF e.emailUser /\ e.emailPass THEN "smtp" ELSE "none"

\* runMigrations: the await it is suspended at, its client, its own pool,
\* whether it rejected, the DDL statements and inserts it has executed, the
\* ordinal of the process start, whether every earlier start's bootstrap
\* returned normally, and the DDL statements the earlier starts executed.
MigInicio(n, limpias) ==
    [pc |-> "connect", client |-> "none", pool |-> "abierto", error |-> FALSE,
     ddl |-> 0, ins |-> 0, corrida |-> n, limpias |-> limpias, antes |-> 0]
\* A bootstrap that found the tables and returned.
MigSaltada ==
    [MigInicio(1, TRUE) EXCEPT !.pc = "fin", !.client = "released", !.pool = "cerrado"]

\* ------------------------------------------------------------- start state
\* The database outlives the process: the server starts either on the empty
\* schema runMigrations created or on rows an earlier run of these same
\* endpoints committed (one complete request, in a status an endpoint sets).
DbVacia == [a |-> {}, s |-> {}, c |-> {}, n |-> 0]
DbConUna(e) ==
    [a |-> {AspiranteRow(1, "ana@x.com")},
     s |-> {[id_solicitud |-> 1, fecha_solicitud |-> 0, estado |-> e, id_aspirante |-> 1]},
     c |-> {CitaRow(1, "2024-06-01", "10:00", 1)},
     n |-> 1]
DbIniciales == {DbVacia, DbConUna("pendiente")}

\* No call has been received.
SinLlamadas ==
    /\ nCalls = 0
    /\ faults = 0
    /\ req = [h \in Calls |-> NoReq]
    /\ pc = [h \in Calls |-> "idle"]
    /\ tx = [h \in Calls |-> NoTx]
    /\ loc = [h \in Calls |-> NoLoc]
    /\ client = [h \in Calls |-> "none"]
    /\ res = [h \in Calls |-> NoRes]
    /\ resErr = [h \in Calls |-> FALSE]
    /\ rejected = [h \in Calls |-> FALSE]
    /\ traza = [h \in Calls |-> <<>>]
    /\ envio = [h \in Calls |-> "no"]

\* The server in service: the bootstrap of this start found the tables and
\* returned, and no SMTP verification is outstanding.
Init ==
    /\ \E d \in DbIniciales :
          /\ aspirante = d.a
          /\ solicitud = d.s
          /\ cita = d.c
          /\ seq = [a |-> d.n, s |-> d.n, c |-> d.n]
    /\ reclutador = {ReclutadorSeed}
    /\ reloj = 0
    /\ env \in {e \in Entornos : ~e.emailUser /\ ~e.emailPass}
    /\ emailServiceType = Elegir(env)
    /\ verif = "no"
    /\ tablas = Tablas
    /\ mig = MigSaltada
    /\ SinLlamadas

\* ------------------------------------------------------------- database
\* A text parameter bound where the column is INTEGER: anything but a decimal
\* integer makes the statement fail (invalid input syntax).
EsEntero(t) == \E i \in Ids : ToString(i) = t
AEntero(t) == CHOOSE i \in Ids : ToString(i) = t
\* A text parameter bound where the column is DATE: NULL binds, a malformed
\* date makes the statement fail.
FechaLigable(f) == f \in Fechas \cup {NULL}

\* The path's id names a stored request.
Existe(t) == EsEntero(t) /\ \E s \in solicitud : s.id_solicitud = AEntero(t)

OtrasAbiertas(h) == {g \in Calls \ {h} : tx[g].abierta}

\* aspirante.correo UNIQUE: an equal key some open transaction inserted makes
\* the INSERT wait until that transaction ends.
CorreoPendiente(h, c) ==
    \E g \in OtrasAbiertas(h) : \E a \in tx[g].asp : a.correo = c

\* aspirante.correo UNIQUE: an equal committed key makes the INSERT fail.
SinUnique(c) == FALSE
CorreoDuplicado(c) == \E a \in aspirante : a.correo = c

\* Row locks of UPDATE: held by the open transaction until it ends.
SolicitudBloqueada(h, id) ==
    \E g \in OtrasAbiertas(h) : \E u \in tx[g].updS : u.id_solicitud = id
CitaBloqueada(h, id) ==
    \E g \in OtrasAbiertas(h) : \E u \in tx[g].updC : u.id_solicitud = id

\* UPDATE solicitud SET estado = 'confirmada' WHERE id_solicitud = $2
FilasConfirmarSoloPendiente(id) ==
    {s \in solicitud : s.id_solicitud = id /\ s.estado = "pendiente"}
FilasConfirmar(id) == {s \in solicitud : s.id_solicitud = id}

\* UPDATE solicitud SET estado = 'rechazada' WHERE id_solicitud = $2
FilasRechazarSoloPendiente(id) ==
    {s \in solicitud : s.id_solicitud = id /\ s.estado = "pendiente"}
FilasRechazar(id) == {s \in solicitud : s.id_solicitud = id}

\* UPDATE cita SET fecha_cita = $1, hora_cita = $2 WHERE id_solicitud = $3
UpdateCitaSoloFecha(c, fecha, hora) == [c EXCEPT !.fecha_cita = fecha]
UpdateCita(c, fecha, hora) == [c EXCEPT !.fecha_cita = fecha, !.hora_cita = hora]

\* COMMIT: the inserted rows and the new row versions become the committed ones.
AplicarS(tabla, t) ==
    {r \in tabla : ~\E u \in t.updS : u.id_solicitud = r.id_solicitud}
        \cup t.updS \cup t.sol
AplicarC(tabla, t) ==
    {r \in tabla : ~\E u \in t.updC : u.id_cita = r.id_cita} \cup t.updC \cup t.cit

\* ROLLBACK (or the loss of the connection): nothing of the transaction stays.
NoDeshacer(t) == t
Deshacer(t) == NoTx

\* SELECT ... FROM solicitud s INNER JOIN aspirante a ... INNER JOIN cita c ...
\* WHERE s.id_solicitud = $1, as transaction t sees it.
SelectAspirante(t, id) ==
    {[correo |-> a.correo, fecha_cita |-> c.fecha_cita, hora_cita |-> c.hora_cita] :
        <<s, a, c>> \in {x \in AplicarS(solicitud, t) \X (aspirante \cup t.asp)
                                  \X AplicarC(cita, t) :
                            /\ x[1].id_solicitud = id
                            /\ x[1].id_aspirante = x[2].id_aspirante
                            /\ x[3].id_solicitud = x[1].id_solicitud}}

\* SELECT ... FROM solicitud s INNER JOIN aspirante a LEFT JOIN cita c
JoinSolicitud(s) ==
    LET a == CHOOSE x \in aspirante : x.id_aspirante = s.id_aspirante
        cs == {c \in cita : c.id_solicitud = s.id_solicitud}
    IN  IF cs = {}
        THEN [id_solicitud |-> s.id_solicitud, fecha_solicitud |-> s.fecha_solicitud,
              estado |-> s.estado, id_aspirante |-> a.id_aspirante, correo |-> a.correo,
              id_cita |-> 0, fecha_cita |-> NULL, hora_cita |-> NULL]
        ELSE LET c == CHOOSE x \in cs : TRUE
             IN [id_solicitud |-> s.id_solicitud, fecha_solicitud |-> s.fecha_solicitud,
                 estado |-> s.estado, id_aspirante |-> a.id_aspirante, correo |-> a.correo,
                 id_cita |-> c.id_cita, fecha_cita |-> c.fecha_cita, hora_cita |-> c.hora_cita]

\* FROM solicitud s INNER JOIN aspirante a ... LEFT JOIN cita c ...: the rows
\* of the result.
FilasListaConCita ==
    {JoinSolicitud(s) :
        s \in {x \in solicitud : /\ \E a \in aspirante : a.id_aspirante = x.id_aspirante
                                  /\ \E c \in cita : c.id_solicitud = x.id_solicitud}}
FilasLista ==
    {JoinSolicitud(s) :
        s \in {x \in solicitud : \E a \in aspirante : a.id_aspirante = x.id_aspirante}}

\* ORDER BY s.fecha_solicitud DESC: the orders the database may return the
\* rows S in (rows of equal timestamp come in any order).
OrdenDesc(S) ==
    {l \in [1..Cardinality(S) -> S] :
        /\ \A i, j \in 1..Cardinality(S) : i # j => l[i] # l[j]
        /\ \A i, j \in 1..Cardinality(S) :
              i < j => l[i].fecha_solicitud >= l[j].fecha_solicitud}

ListaSolicitudes == OrdenDesc(FilasLista)

\* ------------------------------------------------------------- HTTP and e-mail
\* res.status(c).json(b): the first send goes on the wire; a send after the
\* headers were sent throws (ERR_HTTP_HEADERS_SENT) and changes nothing.
Enviada(h) == res[h] # NoRes
JsonSobrescribe(h, r) == [res EXCEPT ![h] = r]
Json(h, r) == IF Enviada(h) THEN res ELSE [res EXCEPT ![h] = r]

Respuesta(c, b) == [status |-> c, body |-> b, id_solicitud |-> 0, rows |-> <<>>]

ErrorDe(tipo) ==
    CASE tipo = "crear" -> "Error al crear la solicitud"
      [] tipo = "confirmar" -> "Error al confirmar la cita"
      [] tipo = "rechazar" -> "Error al rechazar solicitud"
      [] tipo = "listar" -> "Error al obtener solicitudes"
      [] OTHER -> "Error al obtener reclutadores"

\* enviarCorreo up to its first await: without a provider it returns at once,
\* with one the transmission is started.
EnviaCorreo == emailServiceType \in {"resend", "smtp"}

\* What the handler does, in order, once COMMIT has resolved and nothing
\* throws: respond, call enviarCorreo (not awaited), release the client.
TrasCommitCorreoAntes(r, envia) ==
    <<"COMMIT">> \o (IF envia THEN <<"send">> ELSE <<>>) \o <<r, "release">>
TrasCommit(r, envia) ==
    <<"COMMIT", r>> \o (IF envia THEN <<"send">> ELSE <<>>) \o <<"release">>

\* enviarCorreo after its await rejected: the catch logs the failure and
\* returns; the send is over.
Reintenta == "pendiente"
TrasFallo == "fallo"

\* ------------------------------------------------------------- requests
Requests ==
    {[tipo |-> "crear", id |-> NULL, correo |-> c, fecha |-> ft[1], hora |-> ft[2]] :
        c \in Correos, ft \in CitasIn}
    \cup {[tipo |-> "confirmar", id |-> i, correo |-> NULL, fecha |-> ft[1], hora |-> ft[2]] :
        i \in IdsPath, ft \in CitasIn}
    \cup {[tipo |-> "rechazar", id |-> i, correo |-> NULL, fecha |-> NULL, hora |-> NULL] :
        i \in IdsPath}
    \cup {[tipo |-> k, id |-> NULL, correo |-> NULL, fecha |-> NULL, hora |-> NULL] :
        k \in {"listar", "reclutadores"}}

\* An infrastructure failure (the connection is lost, the pool cannot connect)
\* makes the awaited promise reject; MaxFaults of them happen in a run.
Fault(ok) ==
    /\ ok \/ faults < MaxFaults
    /\ faults' = IF ok THEN faults ELSE faults + 1

\* A statement on tables ts: it fails when one of them does not exist
\* (undefined_table), and otherwise as any awaited call may.
Sql(ok, ts) ==
    IF ts \subseteq tablas THEN Fault(ok) ELSE ~ok /\ UNCHANGED faults

\* finally { client.release(); }
NoLiberar(h) == client
Liberar(h) == [client EXCEPT ![h] = "released"]

Log(h, evs) == traza' = [traza EXCEPT ![h] = @ \o evs]

\* ------------------------------------------------------------- actions
\* express routes a request to its handler, which runs to its first await.
Receive(h) ==
    /\ h = nCalls + 1
    /\ pc[h] = "idle"
    /\ nCalls' = h
    /\ \E r \in Requests :
          /\ req' = [req EXCEPT ![h] = r]
          /\ pc' = [pc EXCEPT ![h] =
                       IF r.tipo \in {"crear", "confirmar"} THEN "connect" ELSE "query"]
          /\ loc' = [loc EXCEPT ![h].existia = Existe(r.id)]
    /\ UNCHANGED <<db, seq, reloj, arranque, faults, tx, client, http, traza, envio>>

\* const client = await pool.connect();   (before the try)
Connect(h, ok) ==
    /\ pc[h] = "connect"
    /\ Fault(ok)
    /\ IF ok
       THEN /\ client' = [client EXCEPT ![h] = "held"]
            /\ pc' = [pc EXCEPT ![h] = "BEGIN"]
            /\ UNCHANGED rejected
       ELSE /\ rejected' = [rejected EXCEPT ![h] = TRUE]
            /\ pc' = [pc EXCEPT ![h] = "done"]
            /\ UNCHANGED client
    /\ UNCHANGED <<db, seq, reloj, arranque, nCalls, req, tx, loc,
                   res, resErr, traza, envio>>

\* await client.query('BEGIN');
Begin(h, ok) ==
    /\ pc[h] = "BEGIN"
    /\ Fault(ok)
    /\ IF ok
       THEN /\ reloj' = IF req[h].tipo = "crear" THEN reloj + 1 ELSE reloj
            /\ tx' = [tx EXCEPT ![h] = [NoTx EXCEPT !.abierta = TRUE, !.inicio = reloj']]
            /\ pc' = [pc EXCEPT ![h] =
                         IF req[h].tipo = "crear" THEN "insAspirante" ELSE "updSolicitud"]
       ELSE /\ pc' = [pc EXCEPT ![h] = "ROLLBACK"]
            /\ UNCHANGED <<reloj, tx>>
    /\ UNCHANGED <<db, seq, arranque, nCalls, req, loc, client, http,
                   traza, envio>>

\* INSERT INTO aspirante (nombre, apellidos, celular, correo) ... RETURNING id_aspirante
InsertAspirante(h, ok) ==
    /\ pc[h] = "insAspirante"
    /\ ok => ~CorreoPendiente(h, req[h].correo)
    /\ Sql(ok, {"aspirante"})
    /\ IF ok
       THEN /\ seq' = [seq EXCEPT !.a = @ + 1]
            /\ IF CorreoDuplicado(req[h].correo)
               THEN /\ pc' = [pc EXCEPT ![h] = "ROLLBACK"]
                    /\ UNCHANGED <<tx, loc>>
               ELSE /\ tx' = [tx EXCEPT ![h].asp =
                                 {AspiranteRow(seq.a + 1, req[h].correo)}]
                    /\ loc' = [loc EXCEPT ![h].id_aspirante = seq.a + 1]
                    /\ pc' = [pc EXCEPT ![h] = "insSolicitud"]
       ELSE /\ pc' = [pc EXCEPT ![h] = "ROLLBACK"]
            /\ UNCHANGED <<seq, tx, loc>>
    /\ UNCHANGED <<db, reloj, arranque, nCalls, req, client, http,
                   traza, envio>>

\* INSERT INTO solicitud (fecha_solicitud, estado, id_aspirante)
\*   VALUES (NOW(), 'pendiente', id_aspirante) RETURNING id_solicitud
\* NOW() is the start time of the transaction.
InsertSolicitud(h, ok) ==
    /\ pc[h] = "insSolicitud"
    /\ Sql(ok, {"solicitud"})
    /\ IF ok
       THEN LET fila == SolicitudRow(seq.s + 1, tx[h].inicio, loc[h].id_aspirante)
                fk == \E a \in aspirante \cup tx[h].asp :
                          a.id_aspirante = fila.id_aspirante
            IN  /\ seq' = [seq EXCEPT !.s = @ + 1]
                /\ IF fk /\ fila.estado \in Estados
                   THEN /\ tx' = [tx EXCEPT ![h].sol = {fila}]
                        /\ loc' = [loc EXCEPT ![h].id_solicitud = fila.id_solicitud]
                        /\ pc' = [pc EXCEPT ![h] = "insCita"]
                   ELSE /\ pc' = [pc EXCEPT ![h] = "ROLLBACK"]
                        /\ UNCHANGED <<tx, loc>>
       ELSE /\ pc' = [pc EXCEPT ![h] = "ROLLBACK"]
            /\ UNCHANGED <<seq, tx, loc>>
    /\ UNCHANGED <<db, reloj, arranque, nCalls, req, client, http,
                   traza, envio>>

\* INSERT INTO cita (fecha_cita, hora_cita, id_solicitud) VALUES ($1, $2, id_solicitud)
InsertCita(h, ok) ==
    /\ pc[h] = "insCita"
    /\ Sql(ok, {"cita"})
    /\ IF ok
       THEN IF ~FechaLigable(req[h].fecha)
            THEN /\ pc' = [pc EXCEPT ![h] = "ROLLBACK"]
                 /\ UNCHANGED <<seq, tx>>
            ELSE LET fila == CitaRow(seq.c + 1, req[h].fecha, req[h].hora,
                                     loc[h].id_solicitud)
                     fk == \E s \in solicitud \cup tx[h].sol :
                               s.id_solicitud = fila.id_solicitud
                     unica == ~\E c \in cita \cup tx[h].cit :
                                  c.id_solicitud = fila.id_solicitud
                 IN  /\ seq' = [seq EXCEPT !.c = @ + 1]
                     /\ IF fila.fecha_cita # NULL /\ fila.hora_cita # NULL /\ fk /\ unica
                        THEN /\ tx' = [tx EXCEPT ![h].cit = {fila}]
                             /\ pc' = [pc EXCEPT ![h] = "COMMIT"]
                        ELSE /\ pc' = [pc EXCEPT ![h] = "ROLLBACK"]
                             /\ UNCHANGED tx
       ELSE /\ pc' = [pc EXCEPT ![h] = "ROLLBACK"]
            /\ UNCHANGED <<seq, tx>>
    /\ UNCHANGED <<db, reloj, arranque, nCalls, req, loc, client, http,
                   traza, envio>>

\* await client.query('COMMIT'); res.status(201).json({message, id_solicitud});
\* enviarCorreo(...).catch(...);  finally: client.release();
CreateCommit(h, ok) ==
    /\ pc[h] = "COMMIT"
    /\ req[h].tipo = "crear"
    /\ Fault(ok)
    /\ IF ok
       THEN /\ aspirante' = aspirante \cup tx[h].asp
            /\ solicitud' = AplicarS(solicitud, tx[h])
            /\ cita' = AplicarC(cita, tx[h])
            /\ tx' = [g \in Calls |->
                       IF g = h THEN [tx[h] EXCEPT !.abierta = FALSE, !.hecha = TRUE]
                       ELSE IF g \in OtrasAbiertas(h) /\ req[g].correo = req[h].correo
                            THEN [tx[g] EXCEPT !.vio = TRUE]
                            ELSE tx[g]]
            /\ res' = Json(h, [Respuesta(201, "Solicitud creada exitosamente")
                                 EXCEPT !.id_solicitud = loc[h].id_solicitud])
            /\ envio' = [envio EXCEPT ![h] = IF EnviaCorreo THEN "pendiente" ELSE "noop"]
            /\ Log(h, TrasCommit("res201", EnviaCorreo))
            /\ client' = [client EXCEPT ![h] = "released"]
            /\ pc' = [pc EXCEPT ![h] = "done"]
       ELSE /\ pc' = [pc EXCEPT ![h] = "ROLLBACK"]
            /\ UNCHANGED <<aspirante, solicitud, cita, tx, res, envio, traza, client>>
    /\ UNCHANGED <<reclutador, seq, reloj, arranque, nCalls, req, loc, resErr,
                   rejected>>

\* catch (error) { await client.query('ROLLBACK'); res.status(500).json({error}); }
\* finally { client.release(); }
\* A ROLLBACK that itself fails (the connection is gone, and the server ends
\* the transaction) rejects the handler before the response; a send after the
\* success response throws in the catch block and rejects the handler too.
Rollback(h, ok) ==
    /\ pc[h] = "ROLLBACK"
    /\ Fault(ok)
    /\ LET t == IF tx[h].abierta THEN Deshacer(tx[h]) ELSE NoTx
       IN  /\ aspirante' = aspirante \cup t.asp
           /\ solicitud' = AplicarS(solicitud, t)
           /\ cita' = AplicarC(cita, t)
    /\ tx' = [tx EXCEPT ![h] = IF @.abierta THEN [NoTx EXCEPT !.vio = tx[h].vio] ELSE @]
    /\ IF ok
       THEN /\ res' = Json(h, Respuesta(500, ErrorDe(req[h].tipo)))
            /\ resErr' = [resErr EXCEPT ![h] = Enviada(h)]
            /\ rejected' = [rejected EXCEPT ![h] = Enviada(h)]
            /\ Log(h, <<"ROLLBACK", IF Enviada(h) THEN "throw" ELSE "res500", "release">>)
       ELSE /\ rejected' = [rejected EXCEPT ![h] = TRUE]
            /\ Log(h, <<"release">>)
            /\ UNCHANGED <<res, resErr>>
    /\ client' = Liberar(h)
    /\ pc' = [pc EXCEPT ![h] = "done"]
    /\ UNCHANGED <<reclutador, seq, reloj, arranque, nCalls, req, loc, envio>>

\* UPDATE solicitud SET estado = 'confirmada' WHERE id_solicitud = $2
UpdateSolicitud(h, ok) ==
    /\ pc[h] = "updSolicitud"
    /\ (ok /\ EsEntero(req[h].id)) => ~SolicitudBloqueada(h, AEntero(req[h].id))
    /\ Sql(ok, {"solicitud"})
    /\ IF ok /\ EsEntero(req[h].id)
       THEN /\ tx' = [tx EXCEPT ![h].updS =
                         {[s EXCEPT !.estado = "confirmada"] :
                             s \in FilasConfirmar(AEntero(req[h].id))}]
            /\ pc' = [pc EXCEPT ![h] = "updCita"]
       ELSE /\ pc' = [pc EXCEPT ![h] = "ROLLBACK"]
            /\ UNCHANGED tx
    /\ UNCHANGED <<db, seq, reloj, arranque, nCalls, req, loc, client,
                   http, traza, envio>>

\* UPDATE cita SET fecha_cita = $1, hora_cita = $2 WHERE id_solicitud = $3
UpdateCitaStmt(h, ok) ==
    /\ pc[h] = "updCita"
    /\ ok => ~CitaBloqueada(h, AEntero(req[h].id))
    /\ Sql(ok, {"cita"})
    /\ LET filas == {c \in cita : c.id_solicitud = AEntero(req[h].id)}
           nuevas == {UpdateCita(c, req[h].fecha, req[h].hora) : c \in filas}
       IN  IF /\ ok
              /\ FechaLigable(req[h].fecha)
              /\ \A c \in nuevas : c.fecha_cita # NULL /\ c.hora_cita # NULL
           THEN /\ tx' = [tx EXCEPT ![h].updC = nuevas]
                /\ pc' = [pc EXCEPT ![h] = "select"]
           ELSE /\ pc' = [pc EXCEPT ![h] = "ROLLBACK"]
                /\ UNCHANGED tx
    /\ UNCHANGED <<db, seq, reloj, arranque, nCalls, req, loc, client,
                   http, traza, envio>>

\* const result = await client.query(SELECT ...); const aspirante = result.rows[0];
SelectStmt(h, ok) ==
    /\ pc[h] = "select"
    /\ Sql(ok, {"solicitud", "aspirante", "cita"})
    /\ IF ok
       THEN /\ loc' = [loc EXCEPT ![h].aspirante =
                          SelectAspirante(tx[h], AEntero(req[h].id))]
            /\ pc' = [pc EXCEPT ![h] = "COMMIT"]
       ELSE /\ pc' = [pc EXCEPT ![h] = "ROLLBACK"]
            /\ UNCHANGED loc
    /\ UNCHANGED <<db, seq, reloj, arranque, nCalls, req, tx, client,
                   http, traza, envio>>

\* await client.query('COMMIT'); res.json({message});
\* the template reads aspirante.nombre: a TypeError when no row came back,
\* caught by the catch block; otherwise enviarCorreo(...).catch(...) and
\* finally: client.release();
ConfirmCommit(h, ok) ==
    /\ pc[h] = "COMMIT"
    /\ req[h].tipo = "confirmar"
    /\ Fault(ok)
    /\ IF ok
       THEN /\ solicitud' = AplicarS(solicitud, tx[h])
            /\ cita' = AplicarC(cita, tx[h])
            /\ tx' = [g \in Calls |->
                       IF g = h THEN [tx[h] EXCEPT !.abierta = FALSE, !.hecha = TRUE]
                       ELSE IF g \in OtrasAbiertas(h) /\ req[g].id = req[h].id
                            THEN [tx[g] EXCEPT !.vio = TRUE]
                            ELSE tx[g]]
            /\ res' = Json(h, Respuesta(200, "Cita confirmada exitosamente"))
            /\ IF loc[h].aspirante = {}
               THEN /\ Log(h, <<"COMMIT", "res200", "TypeError">>)
                    /\ pc' = [pc EXCEPT ![h] = "ROLLBACK"]
                    /\ UNCHANGED <<envio, client>>
               ELSE /\ envio' = [envio EXCEPT ![h] =
                                    IF EnviaCorreo THEN "pendiente" ELSE "noop"]
                    /\ Log(h, TrasCommit("res200", EnviaCorreo))
                    /\ client' = [client EXCEPT ![h] = "released"]
                    /\ pc' = [pc EXCEPT ![h] = "done"]
       ELSE /\ pc' = [pc EXCEPT ![h] = "ROLLBACK"]
            /\ UNCHANGED <<solicitud, cita, tx, res, envio, traza, client>>
    /\ UNCHANGED <<aspirante, reclutador, seq, reloj, arranque, nCalls, req, loc,
                   resErr, rejected>>

\* await pool.query('UPDATE solicitud SET estado = $1 WHERE id_solicitud = $2',
\*   ['rechazada', id]); res.json({message});   (one statement, autocommit)
Reject(h, ok) ==
    /\ pc[h] = "query"
    /\ req[h].tipo = "rechazar"
    /\ (ok /\ EsEntero(req[h].id)) => ~SolicitudBloqueada(h, AEntero(req[h].id))
    /\ Sql(ok, {"solicitud"})
    /\ IF ok /\ EsEntero(req[h].id)
       THEN /\ solicitud' =
                 LET filas == FilasRechazar(AEntero(req[h].id))
                 IN  (solicitud \ filas) \cup {[s EXCEPT !.estado = "rechazada"] : s \in filas}
            /\ res' = Json(h, Respuesta(200, "Solicitud rechazada"))
       ELSE /\ res' = Json(h, Respuesta(500, ErrorDe("rechazar")))
            /\ UNCHANGED solicitud
    /\ pc' = [pc EXCEPT ![h] = "done"]
    /\ UNCHANGED <<aspirante, cita, reclutador, seq, reloj, arranque, nCalls,
                   req, tx, loc, client, resErr, rejected, traza, envio>>

\* const result = await pool.query(SELECT ... ORDER BY s.fecha_solicitud DESC);
\* res.json(result.rows);
List(h, ok) ==
    /\ pc[h] = "query"
    /\ req[h].tipo = "listar"
    /\ Sql(ok, {"solicitud", "aspirante", "cita"})
    /\ IF ok
       THEN \E filas \in ListaSolicitudes :
               res' = Json(h, [Respuesta(200, "rows") EXCEPT !.rows = filas])
       ELSE res' = Json(h, Respuesta(500, ErrorDe("listar")))
    /\ pc' = [pc EXCEPT ![h] = "done"]
    /\ UNCHANGED <<db, seq, reloj, arranque, nCalls, req, tx, loc, client,
                   resErr, rejected, traza, envio>>

\* const result = await pool.query('SELECT * FROM reclutador'); res.json(result.rows);
Reclutadores(h, ok) ==
    /\ pc[h] = "query"
    /\ req[h].tipo = "reclutadores"
    /\ Sql(ok, {"reclutador"})
    /\ res' = IF ok
              THEN Json(h, [Respuesta(200, "rows") EXCEPT !.rows =
                               IF reclutador = {} THEN <<>>
                               ELSE <<CHOOSE r \in reclutador : TRUE>>])
              ELSE Json(h, Respuesta(500, ErrorDe("reclutadores")))
    /\ pc' = [pc EXCEPT ![h] = "done"]
    /\ UNCHANGED <<db, seq, reloj, arranque, nCalls, req, tx, loc, client,
                   resErr, rejected, traza, envio>>

\* The awaited send of enviarCorreo settles: success is logged, a failure is
\* caught and logged; the promise the handler dropped resolves either way.
EmailSettle(h, ok) ==
    /\ envio[h] = "pendiente"
    /\ IF ok
       THEN /\ envio' = [envio EXCEPT ![h] = "enviado"]
            /\ Log(h, <<"sendOk">>)
       ELSE /\ envio' = [envio EXCEPT ![h] = TrasFallo]
            /\ Log(h, <<"sendFail">>)
    /\ UNCHANGED <<db, seq, reloj, arranque, nCalls, faults, req, pc, tx, loc,
                   client, http>>

Next ==
    \E h \in Calls :
        \/ Receive(h)
        \/ \E ok \in BOOLEAN :
              \/ Connect(h, ok)
              \/ Begin(h, ok)
              \/ InsertAspirante(h, ok)
              \/ InsertSolicitud(h, ok)
              \/ InsertCita(h, ok)
              \/ CreateCommit(h, ok)
              \/ UpdateSolicitud(h, ok)
              \/ UpdateCitaStmt(h, ok)
              \/ SelectStmt(h, ok)
              \/ ConfirmCommit(h, ok)
              \/ Rollback(h, ok)
              \/ Reject(h, ok)
              \/ List(h, ok)
              \/ Reclutadores(h, ok)
              \/ EmailSettle(h, ok)

Spec == Init /\ [][Next]_vars

\* ------------------------------------------------------------- process start
\* The process starts on a database without tables, or on one an earlier
\* start migrated and an earlier run of the endpoints wrote to. Loading the
\* module calls runMigrations (which runs to its first await), selects the
\* e-mail provider, registers the routes and calls app.listen, all in one
\* synchronous stretch: the state after it is the start state.
InitArranque ==
    /\ \/ /\ tablas = {}
          /\ aspirante = {} /\ solicitud = {} /\ cita = {} /\ reclutador = {}
          /\ seq = [a |-> 0, s |-> 0, c |-> 0]
       \/ /\ tablas = Tablas
          /\ aspirante = DbConUna("pendiente").a
          /\ solicitud = DbConUna("pendiente").s
          /\ cita = DbConUna("pendiente").c
          /\ reclutador = {ReclutadorSeed}
          /\ seq = [a |-> 1, s |-> 1, c |-> 1]
    /\ reloj = 0
    /\ env \in Entornos
    /\ emailServiceType = Elegir(env)
    /\ verif = IF emailServiceType = "smtp" THEN "pendiente" ELSE "no"
    /\ mig = MigInicio(1, TRUE)
    /\ SinLlamadas

\* SELECT EXISTS (... table_name = 'aspirante')
NuncaExisten == FALSE
TablasExisten == "aspirante" \in tablas

\* parseInt(reclutadorExists.rows[0].count) === 0
FaltaSemilla == reclutador = {}

\* The statements between the existence check and the seed, in order: four
\* CREATE TABLE IF NOT EXISTS, the indexes, the view, the function.
PasosDDL == <<"aspirante", "reclutador", "solicitud", "cita", "indices", "vista", "funcion">>
Siguiente(paso) ==
    LET i == CHOOSE k \in 1..Len(PasosDDL) : PasosDDL[k] = paso
    IN  IF i = Len(PasosDDL) THEN "cuenta" ELSE PasosDDL[i + 1]

\* catch { throw error } finally { client.release(); await pool.end(); }
\* and the function settles: it rejects with the error, if any.
MigFin(m, error) ==
    [m EXCEPT !.pc = "fin", !.client = "released", !.pool = "cerrado", !.error = error]

\* const client = await pool.connect();   (before the try: when it rejects,
\* neither catch nor finally runs, and runMigrations rejects)
MigConnect(ok) ==
    /\ mig.pc = "connect"
    /\ Fault(ok)
    /\ mig' = IF ok THEN [mig EXCEPT !.pc = "existe", !.client = "held"]
              ELSE [mig EXCEPT !.pc = "fin", !.error = TRUE]
    /\ UNCHANGED <<db, seq, reloj, emailServiceType, env, verif, tablas, llamadas>>

\* const tablesExist = await client.query(...); if (exists) return;
MigExiste(ok) ==
    /\ mig.pc = "existe"
    /\ Fault(ok)
    /\ mig' = IF ~ok THEN MigFin(mig, TRUE)
              ELSE IF TablasExisten THEN MigFin(mig, FALSE)
              ELSE [mig EXCEPT !.pc = PasosDDL[1]]
    /\ UNCHANGED <<db, seq, reloj, emailServiceType, env, verif, tablas, llamadas>>

\* await client.query(CREATE ...): each statement commits on its own.
MigDDL(ok) ==
    /\ mig.pc \in {PasosDDL[k] : k \in 1..Len(PasosDDL)}
    /\ Fault(ok)
    /\ IF ok
       THEN /\ tablas' = IF mig.pc \in Tablas THEN tablas \cup {mig.pc} ELSE tablas
            /\ mig' = [mig EXCEPT !.pc = Siguiente(mig.pc), !.ddl = @ + 1]
       ELSE /\ mig' = MigFin(mig, TRUE)
            /\ UNCHANGED tablas
    /\ UNCHANGED <<db, seq, reloj, emailServiceType, env, verif, llamadas>>

\* const reclutadorExists = await client.query(SELECT COUNT(*) FROM reclutador);
MigCuenta(ok) ==
    /\ mig.pc = "cuenta"
    /\ Fault(ok)
    /\ mig' = IF ~ok THEN MigFin(mig, TRUE)
              ELSE IF FaltaSemilla THEN [mig EXCEPT !.pc = "semilla"]
              ELSE MigFin(mig, FALSE)
    /\ UNCHANGED <<db, seq, reloj, emailServiceType, env, verif, tablas, llamadas>>

\* await client.query(INSERT INTO reclutador ...): reclutador.correo is UNIQUE.
MigSemilla(ok) ==
    /\ mig.pc = "semilla"
    /\ Fault(ok)
    /\ IF ok /\ ~\E r \in reclutador : r.correo = ReclutadorSeed.correo
       THEN /\ reclutador' = reclutador \cup {ReclutadorSeed}
            /\ mig' = MigFin([mig EXCEPT !.ins = @ + 1], FALSE)
       ELSE /\ mig' = MigFin(mig, TRUE)
            /\ UNCHANGED reclutador
    /\ UNCHANGED <<aspirante, solicitud, cita, seq, reloj, emailServiceType, env, verif,
                   tablas, llamadas>>

\* emailService.verify((error, success) => {...}): on an error the provider
\* is dropped.
Verify(ok) ==
    /\ verif = "pendiente"
    /\ verif' = IF ok THEN "ok" ELSE "fallo"
    /\ emailServiceType' = IF ok THEN emailServiceType ELSE "none"
    /\ UNCHANGED <<db, seq, reloj, env, tablas, mig, faults, llamadas>>

\* The process is started again on the same database and environment, once
\* the bootstrap of this start has settled and no handler is running.
Reinicio ==
    /\ mig.pc = "fin"
    /\ mig.corrida < MaxCorridas
    /\ \A h \in Calls : pc[h] \in {"idle", "done"} /\ envio[h] # "pendiente"
    /\ mig' = [MigInicio(mig.corrida + 1, mig.limpias /\ ~mig.error)
                 EXCEPT !.antes = mig.antes + mig.ddl]
    /\ emailServiceType' = Elegir(env)
    /\ verif' = IF Elegir(env) = "smtp" THEN "pendiente" ELSE "no"
    /\ UNCHANGED <<db, seq, reloj, env, tablas, faults, llamadas>>

\* The calls that arrive while the process starts.
RequestsArranque ==
    {r \in Requests :
        /\ r.fecha \in {NULL, "2024-06-02"}
        /\ r.tipo = "crear" => (r.correo = "luis@x.com" /\ r.fecha # NULL)
        /\ r.tipo = "confirmar" => (r.id = "1" /\ r.fecha # NULL)
        /\ r.tipo = "rechazar" => r.id = "1"}

NextArranque ==
    \/ \E ok \in BOOLEAN :
          \/ MigConnect(ok)
          \/ MigExiste(ok)
          \/ MigDDL(ok)
          \/ MigCuenta(ok)
          \/ MigSemilla(ok)
          \/ Verify(ok)
    \/ Reinicio
    \/ \E h \in 1..LlamadasArranque :
          \/ Receive(h) /\ req'[h] \in RequestsArranque
          \/ \E ok \in BOOLEAN :
                \/ Connect(h, ok)
                \/ Begin(h, ok)
                \/ InsertAspirante(h, ok)
                \/ InsertSolicitud(h, ok)
                \/ InsertCita(h, ok)
                \/ CreateCommit(h, ok)
                \/ UpdateSolicitud(h, ok)
                \/ UpdateCitaStmt(h, ok)
                \/ SelectStmt(h, ok)
                \/ ConfirmCommit(h, ok)
                \/ Rollback(h, ok)
                \/ Reject(h, ok)
                \/ List(h, ok)
                \/ Reclutadores(h, ok)
                \/ EmailSettle(h, ok)

SpecArranque == InitArranque /\ [][NextArranque]_vars

\* ------------------------------------------------------------- the list query
\* The list query over any content the schema admits, rows written outside
\* the endpoints included: up to two requests, each of an existing aspirant,
\* with any timestamp (equal ones included) and status, each with at most one
\* appointment (cita.id_solicitud is UNIQUE), with or without a recruiter.
Sellos == 0..2
FilasSolicitud(i) ==
    {[id_solicitud |-> i, fecha_solicitud |-> t, estado |-> e, id_aspirante |-> i] :
        t \in Sellos, e \in {"pendiente", "confirmada"}}
FilasCita(i) ==
    {[CitaRow(i, "2024-06-01", "10:00", i) EXCEPT !.id_reclutador = r] :
        r \in {NULL, ToString(ReclutadorSeed.id_reclutador)}}

InitLista ==
    /\ aspirante = {AspiranteRow(1, "ana@x.com"), AspiranteRow(2, "luis@x.com")}
    /\ \E S \in SUBSET (FilasSolicitud(1) \cup FilasSolicitud(2)) :
          /\ \A x, y \in S : x.id_solicitud = y.id_solicitud => x = y
          /\ solicitud = S
    /\ \E C \in SUBSET (FilasCita(1) \cup FilasCita(2)) :
          /\ \A x, y \in C : x.id_solicitud = y.id_solicitud => x = y
          /\ \A x \in C : \E y \in solicitud : y.id_solicitud = x.id_solicitud
          /\ cita = C
    /\ reclutador = {ReclutadorSeed}
    /\ seq = [a |-> 2, s |-> 2, c |-> 2]
    /\ reloj = 2
    /\ env = [resendKey |-> FALSE, emailUser |-> FALSE, emailPass |-> FALSE]
    /\ emailServiceType = Elegir(env)
    /\ verif = "no"
    /\ tablas = Tablas
    /\ mig = MigSaltada
    /\ SinLlamadas

NextLista ==
    \E h \in Calls :
        \/ Receive(h) /\ req'[h].tipo = "listar"
        \/ \E ok \in BOOLEAN : List(h, ok)

SpecLista == InitLista /\ [][NextLista]_vars

\* ------------------------------------------------------------- properties
Hecha(h) == tx[h].hecha
Crear(h) == req[h].tipo = "crear"
Confirmar(h) == req[h].tipo = "confirmar"
Rechazar(h) == req[h].tipo = "rechazar"
Fin(h) == pc[h] = "done"
\* No infrastructure failure has happened in the run.
SinFallos == faults = 0
ErrorCrear == Respuesta(500, "Error al crear la solicitud")

\* C1: a create call that commits adds exactly one aspirante row, exactly one
\* solicitud row with estado 'pendiente' and exactly one cita row with the
\* date and time of the body and no recruiter; the solicitud references the
\* new aspirante and the cita the new solicitud; the 201 response carries the
\* id of the new solicitud. A create whose inputs the database accepts (a
\* date it can store, an e-mail no aspirante has) and that meets no
\* infrastructure failure does commit.
C1_Paso ==
    \A h \in Calls :
        (Crear(h) /\ ~Hecha(h) /\ tx'[h].hecha) =>
            \E a \in aspirante' \ aspirante, s \in solicitud' \ solicitud,
               c \in cita' \ cita :
                /\ aspirante' = aspirante \cup {a}
                /\ solicitud' = solicitud \cup {s}
                /\ cita' = cita \cup {c}
                /\ a.correo = req[h].correo
                /\ s.estado = "pendiente"
                /\ s.id_aspirante = a.id_aspirante
                /\ c.id_solicitud = s.id_solicitud
                /\ c.fecha_cita = req[h].fecha
                /\ c.hora_cita = req[h].hora
                /\ c.id_reclutador = NULL
                /\ res'[h].status = 201
                /\ res'[h].id_solicitud = s.id_solicitud
C1_Valida ==
    \A h \in Calls :
        (Crear(h) /\ Fin(h) /\ SinFallos /\ req[h].fecha \in Fechas /\ ~Hecha(h)) =>
            \E a \in aspirante : a.correo = req[h].correo
C1_CreateAddsOneOfEach == [][C1_Paso]_vars /\ []C1_Valida

\* C1 witness: a create has committed and answered 201, and its three rows
\* are stored.
C1_Witness ==
    \E h \in Calls :
        /\ Crear(h) /\ Fin(h) /\ Hecha(h) /\ res[h].status = 201
        /\ \E a \in aspirante, s \in solicitud, c \in cita :
              /\ a.id_aspirante = loc[h].id_aspirante
              /\ s.id_solicitud = loc[h].id_solicitud
              /\ c.id_solicitud = s.id_solicitud

\* C2: of two create calls with the same e-mail at most one commits, and no
\* two aspirante rows ever share an e-mail; a create that did not commit has
\* left no row under the ids it was given; and, when no infrastructure
\* failure happens, the call the UNIQUE constraint rejects gets the 500
\* creation-failure response.
C2_DuplicateEmailRejected ==
    /\ \A h1, h2 \in Calls :
          (h1 # h2 /\ Crear(h1) /\ Crear(h2) /\ req[h1].correo = req[h2].correo)
              => ~(Hecha(h1) /\ Hecha(h2))
    /\ \A a1, a2 \in aspirante : a1.correo = a2.correo => a1 = a2
    /\ \A h \in Calls :
          (Crear(h) /\ Fin(h) /\ ~Hecha(h)) =>
              /\ ~\E a \in aspirante : a.id_aspirante = loc[h].id_aspirante
              /\ ~\E s \in solicitud : s.id_solicitud = loc[h].id_solicitud
              /\ ~\E c \in cita : c.id_solicitud = loc[h].id_solicitud
              /\ SinFallos => res[h] = ErrorCrear

\* C2 witness: two creates with the same e-mail ran interleaved (one
\* committed while the other's transaction was open); the first committed,
\* the second was rejected with 500 and stored nothing.
C2_Witness ==
    \E h1, h2 \in Calls :
        /\ h1 # h2 /\ Crear(h1) /\ Crear(h2) /\ req[h1].correo = req[h2].correo
        /\ Fin(h1) /\ Fin(h2) /\ Hecha(h1) /\ ~Hecha(h2) /\ tx[h2].vio
        /\ req[h2].fecha \in Fechas
        /\ SinFallos
        /\ res[h2] = ErrorCrear
        /\ Cardinality({a \in aspirante : a.correo = req[h1].correo}) = 1

\* C3: in every committed state of the database every aspirante has a
\* solicitud and every solicitud has exactly one cita (and an aspirante), so
\* no row of a list response lacks its cita.
C3_NoPartialCreate ==
    /\ \A a \in aspirante : \E s \in solicitud : s.id_aspirante = a.id_aspirante
    /\ \A s \in solicitud :
          /\ \E a \in aspirante : a.id_aspirante = s.id_aspirante
          /\ Cardinality({c \in cita : c.id_solicitud = s.id_solicitud}) = 1
    /\ \A h \in Calls :
          (req[h].tipo = "listar" /\ Fin(h) /\ res[h].status = 200) =>
              \A i \in 1..Len(res[h].rows) : res[h].rows[i].id_cita # 0

\* C3 witness: a create failed after its aspirante and solicitud inserts had
\* succeeded, was rolled back, and a list call has answered.
C3_Witness ==
    \E h, g \in Calls :
        /\ Crear(h) /\ Fin(h) /\ ~Hecha(h) /\ loc[h].id_solicitud # 0
        /\ req[g].tipo = "listar" /\ Fin(g) /\ res[g].status = 200

\* C4 (as claimed): every create call that ends without committing has had
\* its transaction rolled back and has answered 500 with the generic
\* creation-failure error, whichever step failed.
C4_FailedCreateAnswers500 ==
    \A h \in Calls :
        (Crear(h) /\ Fin(h) /\ ~Hecha(h)) => (~tx[h].abierta /\ res[h] = ErrorCrear)

\* C5: in a create and in a confirm call the e-mail send is started only
\* after the success response was sent, and the success response is sent
\* only after COMMIT: in the handler's own order of events, and in the state
\* (a success response implies a committed transaction, a started or skipped
\* send implies a success response).
Exitos == {"res200", "res201"}
C5_CommitResponseEmail ==
    \A h \in Calls :
        /\ \A i \in 1..Len(traza[h]) :
              /\ traza[h][i] = "send" => \E j \in 1..(i - 1) : traza[h][j] \in Exitos
              /\ traza[h][i] \in Exitos => \E j \in 1..(i - 1) : traza[h][j] = "COMMIT"
        /\ (Crear(h) \/ Confirmar(h)) =>
              /\ res[h].status \in {200, 201} => Hecha(h)
              /\ envio[h] # "no" => res[h].status \in {200, 201}

\* C5 witness: a create and a confirm have both started their e-mail send.
C5_Witness ==
    \E h, g \in Calls :
        /\ Crear(h) /\ Confirmar(g)
        /\ \E i \in 1..Len(traza[h]) : traza[h][i] = "send"
        /\ \E i \in 1..Len(traza[g]) : traza[g][i] = "send"

\* C6: the outcome of the e-mail send reaches neither the caller nor the
\* database. The step in which a send settles changes no table, no response
\* and no handler; a send exists only once the response is on the wire and
\* the transaction is over; a response once sent never changes; a committed
\* create answers 201 and a committed confirm 200 whatever became of the
\* send (sent, failed, pending, or not attempted for want of a provider); a
\* settled send stays settled, and a failed one is not started again.
C6_Paso ==
    \A h \in Calls :
        /\ (envio[h] = "pendiente" /\ envio'[h] # envio[h]) =>
              UNCHANGED <<db, seq, http, pc, tx, loc, client>>
        /\ (envio[h] = "pendiente" /\ traza'[h] = Append(traza[h], "sendFail")) =>
              envio'[h] = "fallo"
        /\ envio[h] \in {"enviado", "fallo", "noop"} => envio'[h] = envio[h]
        /\ Enviada(h) => res'[h] = res[h]
C6_Estado ==
    \A h \in Calls :
        /\ envio[h] # "no" => (Enviada(h) /\ ~tx[h].abierta /\ Fin(h))
        /\ Cardinality({i \in 1..Len(traza[h]) : traza[h][i] = "send"}) <= 1
        /\ (Crear(h) /\ Hecha(h)) => res[h].status = 201
        /\ (Confirmar(h) /\ Hecha(h)) => res[h].status = 200
C6_EmailOutcomeUnobservable == [][C6_Paso]_vars /\ []C6_Estado

\* C6 witness: the send of a committed create failed, and the call's response
\* is the 201 it was.
C6_Witness ==
    \E h \in Calls :
        /\ Crear(h) /\ Hecha(h) /\ envio[h] = "fallo" /\ res[h].status = 201
        /\ \E a \in aspirante : a.id_aspirante = loc[h].id_aspirante

\* The appointment of request id carries the date and time of call h.
CitaDe(h, tabla) ==
    /\ \E c \in tabla : c.id_solicitud = AEntero(req[h].id)
    /\ \A c \in tabla : c.id_solicitud = AEntero(req[h].id) =>
          (c.fecha_cita = req[h].fecha /\ c.hora_cita = req[h].hora)
\* The request of call h has the given status.
EstadoDe(h, tabla, e) ==
    /\ \E s \in tabla : s.id_solicitud = AEntero(req[h].id)
    /\ \A s \in tabla : s.id_solicitud = AEntero(req[h].id) => s.estado = e

\* C7: a confirm of a request that was stored when the call came leaves, at
\* its COMMIT, that request 'confirmada' and its appointment with the date
\* and time of the body, and answers 200, whatever the status was before;
\* with a date the database can store and no infrastructure failure it does
\* commit: no check of the prior status stops it.
C7_Paso ==
    \A h \in Calls :
        (Confirmar(h) /\ loc[h].existia /\ ~Hecha(h) /\ tx'[h].hecha) =>
            /\ EstadoDe(h, solicitud', "confirmada")
            /\ CitaDe(h, cita')
            /\ res'[h].status = 200
C7_Valida ==
    \A h \in Calls :
        (Confirmar(h) /\ loc[h].existia /\ Fin(h) /\ SinFallos /\ req[h].fecha \in Fechas)
            => (Hecha(h) /\ res[h].status = 200)
C7_ConfirmSetsStatusAndDate == [][C7_Paso]_vars /\ []C7_Valida

\* C7 witness: a request was rejected and then confirmed: both calls answered
\* 200 and the request is 'confirmada' with the date and time of the confirm.
C7_Witness ==
    \E h, g \in Calls :
        /\ Confirmar(h) /\ loc[h].existia /\ Fin(h) /\ Hecha(h)
        /\ Rechazar(g) /\ req[g].id = req[h].id /\ Fin(g) /\ res[g].status = 200
        /\ EstadoDe(h, solicitud, "confirmada")
        /\ CitaDe(h, cita)

\* C8 (as claimed): a confirm whose id matches no request row answers 200,
\* whatever the id and the body are.
C8_MissingIdAnswers200 ==
    \A h \in Calls :
        (Confirmar(h) /\ Fin(h) /\ SinFallos /\ ~Existe(req[h].id)) => res[h].status = 200

\* C8 (amended): a confirm whose id matches no request row changes no row of
\* any table; when the id is an integer the database can bind and the date is
\* one it can bind (well formed, or absent), the call commits and the caller
\* receives 200, which the later failure of the handler (no row to read the
\* e-mail address from) does not replace.
C8_Paso ==
    \A h \in Calls :
        (Confirmar(h) /\ pc'[h] # pc[h]
            /\ ~(EsEntero(req[h].id)
                   /\ \E s \in solicitud' : s.id_solicitud = AEntero(req[h].id))) =>
            /\ UNCHANGED db
            /\ (~Hecha(h) /\ tx'[h].hecha) => res'[h].status = 200
            /\ Enviada(h) => res'[h] = res[h]
C8_Estado ==
    \A h \in Calls :
        (Confirmar(h) /\ Fin(h) /\ SinFallos /\ ~Existe(req[h].id)
            /\ EsEntero(req[h].id) /\ FechaLigable(req[h].fecha))
            => (Hecha(h) /\ res[h].status = 200)
C8_MissingIntegerIdAnswers200 == [][C8_Paso]_vars /\ []C8_Estado

\* C8 witness: a confirm of an integer id that matches no row has ended: the
\* caller has the 200, the catch block's 500 was refused.
C8_Witness ==
    \E h \in Calls :
        /\ Confirmar(h) /\ Fin(h) /\ ~Existe(req[h].id) /\ Hecha(h)
        /\ res[h].status = 200 /\ resErr[h]

\* C9: a reject of a stored request whose statement succeeds leaves the
\* request 'rechazada' and answers 200, whatever the status was before, and
\* changes nothing else.
C9_Paso ==
    \A h \in Calls :
        (Rechazar(h) /\ pc[h] = "query" /\ pc'[h] = "done" /\ Existe(req[h].id)
            /\ faults' = faults) =>
            /\ EstadoDe(h, solicitud', "rechazada")
            /\ res'[h].status = 200
            /\ UNCHANGED <<aspirante, cita, reclutador>>
            /\ \A s \in solicitud : s.id_solicitud # AEntero(req[h].id) => s \in solicitud'
C9_RejectSetsStatus == [][C9_Paso]_vars

\* C9 witness: a request was confirmed and then rejected: it is 'rechazada'
\* and the reject answered 200.
C9_Witness ==
    \E h, g \in Calls :
        /\ Rechazar(h) /\ Fin(h) /\ res[h].status = 200
        /\ Confirmar(g) /\ req[g].id = req[h].id /\ loc[g].existia /\ Hecha(g)
        /\ EstadoDe(h, solicitud, "rechazada")

\* C10: the committed confirms of a stored request all answer 200, and its
\* appointment carries the (date, time) pair of one of them, never the date
\* of one with the time of another; of two of them that overlapped, the pair
\* is that of the one that committed last.
Confirmadas(id) == {g \in Calls : Confirmar(g) /\ Hecha(g) /\ req[g].id = id}
ParDe(g) == <<req[g].fecha, req[g].hora>>
C10_LastCommitWins ==
    \A id \in IdsPath :
        (\E g \in Confirmadas(id) : loc[g].existia) =>
            /\ \A g \in Confirmadas(id) : res[g].status = 200
            /\ \A g \in Calls :
                  (/\ Confirmar(g) /\ req[g].id = id /\ loc[g].existia
                   /\ Fin(g) /\ SinFallos /\ req[g].fecha \in Fechas) => Hecha(g)
            /\ \A c \in cita : c.id_solicitud = AEntero(id) =>
                  <<c.fecha_cita, c.hora_cita>> \in {ParDe(g) : g \in Confirmadas(id)}
            /\ \A h1, h2 \in Confirmadas(id) :
                  (/\ Confirmadas(id) = {h1, h2} /\ h1 # h2
                   /\ loc[h1].existia /\ loc[h2].existia /\ tx[h2].vio)
                      => CitaDe(h2, cita)

\* C10 witness: two confirms of the same request, with different dates and
\* times, overlapped; both answered 200 and the appointment is the later
\* committer's.
C10_Witness ==
    \E h1, h2 \in Calls :
        /\ h1 # h2 /\ Confirmar(h1) /\ Confirmar(h2) /\ req[h1].id = req[h2].id
        /\ loc[h1].existia /\ loc[h2].existia
        /\ req[h1].fecha # req[h2].fecha /\ req[h1].hora # req[h2].hora
        /\ Fin(h1) /\ Fin(h2) /\ Hecha(h1) /\ Hecha(h2) /\ tx[h2].vio
        /\ res[h1].status = 200 /\ res[h2].status = 200
        /\ CitaDe(h2, cita)

\* C11: when no call of the bootstrap fails, every run of it returns
\* normally, and a run after the first finds the aspirante table, executes no
\* DDL and no insert; exactly the seed recruiter is stored.
C11_BootstrapIdempotent ==
    (SinFallos /\ mig.pc = "fin") =>
        /\ ~mig.error /\ mig.limpias
        /\ reclutador = {ReclutadorSeed}
        /\ mig.corrida >= 2 => (mig.ddl = 0 /\ mig.ins = 0)

\* C11 witness: the first start created the whole schema, the second start's
\* bootstrap has returned without executing anything.
C11_Witness ==
    /\ mig.corrida = 2 /\ mig.pc = "fin" /\ ~mig.error /\ mig.limpias
    /\ mig.antes = Len(PasosDDL) /\ mig.ddl = 0 /\ mig.ins = 0
    /\ reclutador = {ReclutadorSeed}

\* C12 (as claimed): whenever the bootstrap routine has ended, on any
\* outcome, its client is not held and its pool is closed.
C12_BootstrapClosesPool ==
    mig.pc = "fin" => (mig.client # "held" /\ mig.pool = "cerrado")

\* C13 (as claimed): once the bootstrap has failed the server serves nothing:
\* it accepts no call and sends no response.
C13_FailedBootstrapStopsServer ==
    [][(mig.pc = "fin" /\ mig.error) => UNCHANGED <<nCalls, res>>]_vars

\* C14: every stored request is 'pendiente', 'confirmada' or 'rechazada':
\* no endpoint stores 'cancelada', nor a status outside the enumeration.
C14_StatusNeverCancelada ==
    \A s \in solicitud : s.estado \in {"pendiente", "confirmada", "rechazada"}

\* C14 witness: the endpoints have created one request and rejected another:
\* two statuses are stored at once.
C14_Witness ==
    \E h, g \in Calls :
        /\ Crear(h) /\ Hecha(h) /\ Rechazar(g) /\ Fin(g) /\ res[g].status = 200
        /\ \E s1, s2 \in solicitud :
              /\ s1.id_solicitud = loc[h].id_solicitud /\ s1.estado = "pendiente"
              /\ s2.id_solicitud = AEntero(req[g].id) /\ s2.estado = "rechazada"

\* C15: the provider is Resend whenever its key is present; without the key
\* and with SMTP user and password it is SMTP, verified at start, and none
\* once the verification has failed; otherwise it is none. A send called
\* while the provider is none transmits nothing and returns: the handler
\* goes on to its end, and the send never becomes a transmission.
C15_Proveedor ==
    LET smtp == env.emailUser /\ env.emailPass
    IN  /\ env.resendKey => (emailServiceType = "resend" /\ verif = "no")
        /\ (~env.resendKey /\ smtp /\ verif # "fallo") => emailServiceType = "smtp"
        /\ (~env.resendKey /\ smtp) => verif # "no"
        /\ (~env.resendKey /\ smtp /\ verif = "fallo") => emailServiceType = "none"
        /\ (~env.resendKey /\ ~smtp) => (emailServiceType = "none" /\ verif = "no")
C15_Paso ==
    \A h \in Calls :
        /\ (envio[h] = "no" /\ envio'[h] # "no" /\ emailServiceType = "none") =>
              /\ envio'[h] = "noop"
              /\ \A k \in 1..Len(traza'[h]) : traza'[h][k] # "send"
              /\ pc'[h] = "done" /\ ~rejected'[h]
        /\ envio[h] = "noop" => envio'[h] = "noop"
C15_ProviderPriority == []C15_Proveedor /\ [][C15_Paso]_vars

\* C15 witness: SMTP was selected, its verification failed, and a call that
\* committed afterwards sent its response and transmitted nothing.
C15_Witness ==
    /\ ~env.resendKey /\ env.emailUser /\ env.emailPass
    /\ verif = "fallo" /\ emailServiceType = "none"
    /\ \E h \in Calls : Hecha(h) /\ Fin(h) /\ envio[h] = "noop" /\ Enviada(h)

\* C16: a list call that succeeds returns exactly one row for every stored
\* request, with or without an appointment or a recruiter (the appointment
\* columns are empty when there is none), and the rows come newest first.
C16_Paso ==
    \A h \in Calls :
        (req[h].tipo = "listar" /\ pc[h] = "query" /\ pc'[h] = "done"
            /\ faults' = faults) =>
            LET filas == res'[h].rows
            IN  /\ res'[h].status = 200
                /\ Len(filas) = Cardinality(solicitud)
                /\ \A s \in solicitud : \E k \in 1..Len(filas) :
                      /\ filas[k].id_solicitud = s.id_solicitud
                      /\ filas[k].estado = s.estado
                      /\ filas[k].fecha_solicitud = s.fecha_solicitud
                      /\ \A c \in cita : c.id_solicitud = s.id_solicitud =>
                            (filas[k].id_cita = c.id_cita /\ filas[k].fecha_cita = c.fecha_cita)
                      /\ (~\E c \in cita : c.id_solicitud = s.id_solicitud) =>
                            filas[k].fecha_cita = NULL
                /\ \A i, j \in 1..Len(filas) :
                      i < j => filas[i].fecha_solicitud >= filas[j].fecha_solicitud
C16_ListReturnsAllNewestFirst == [][C16_Paso]_vars

\* C16 witness: a list call returned two rows, the newer request first, one
\* of them of a request without an appointment.
C16_Witness ==
    \E h \in Calls :
        /\ req[h].tipo = "listar" /\ Fin(h) /\ res[h].status = 200
        /\ Len(res[h].rows) = 2
        /\ res[h].rows[1].fecha_solicitud > res[h].rows[2].fecha_solicitud
        /\ res[h].rows[1].id_solicitud < res[h].rows[2].id_solicitud
        /\ \E k \in 1..2 : res[h].rows[k].fecha_cita = NULL
        /\ \E k \in 1..2 : res[h].rows[k].fecha_cita # NULL

\* C17 (as claimed): a create, confirm or reject call that has ended has
\* sent a response, and never tried to send a second one.
C17_ExactlyOneResponse ==
    \A h \in Calls :
        (Fin(h) /\ (Crear(h) \/ Confirmar(h) \/ Rechazar(h))) =>
            (Enviada(h) /\ ~resErr[h])

\* The statements a handler runs against the tables.
PcSentencias ==
    {"insAspirante", "insSolicitud", "insCita", "updSolicitud", "updCita", "select", "query"}

\* C18 (as claimed): a statement of a handler settles only when the
\* bootstrap of this process start has ended.
C18_NoStatementBeforeBootstrap ==
    [][\A h \in Calls :
          (pc[h] \in PcSentencias /\ pc'[h] # pc[h]) => mig.pc = "fin"]_vars

\* Number of times event e is in the handler's trace.
Veces(h, e) == Cardinality({k \in 1..Len(traza[h]) : traza[h][k] = e})

\* C19: a create or confirm handler holds its client only while it runs;
\* when it has ended, whatever the path, the client it acquired has been
\* released exactly once (and none was released if it acquired none).
C19_ClientReleasedOnce ==
    \A h \in Calls :
        /\ client[h] = "held" => (pc[h] \notin {"idle", "done", "connect"}
                                    /\ Veces(h, "release") = 0)
        /\ client[h] = "released" => (Fin(h) /\ Veces(h, "release") = 1)
        /\ client[h] = "none" => Veces(h, "release") = 0
        /\ (Fin(h) /\ (Crear(h) \/ Confirmar(h)) /\ client[h] = "none")
              => (rejected[h] /\ ~Enviada(h) /\ ~tx[h].abierta /\ ~Hecha(h))

\* C19 witness: one call threw after its response was sent, another one's
\* ROLLBACK failed; both have ended with their client released.
C19_Witness ==
    \E h, g \in Calls :
        /\ Confirmar(h) /\ Fin(h) /\ Hecha(h) /\ resErr[h] /\ client[h] = "released"
        /\ g # h /\ Fin(g) /\ rejected[g] /\ ~Enviada(g) /\ client[g] = "released"

====
